---------------------------- MODULE Spec2Model ----------------------------
(***************************************************************************)
(* A model of the DocumentStack Node SDK client (src/src/client.ts) and    *)
(* its error classes (errors.ts, held as src/unnamed/part_001).            *)
(*                                                                         *)
(* Strings are sequences of UTF-16 code units (integers), so that the      *)
(* conversions the client applies to them (parseInt, the filename regular  *)
(* expression, encodeURIComponent, decodeURIComponent) are computed the    *)
(* way the JavaScript runtime computes them.  JavaScript values that may   *)
(* be a number, NaN or undefined are records [t, v].                       *)
(***************************************************************************)
EXTENDS Integers, Sequences, FiniteSets, TLC

(***************************************************************************)
(* Bounds of the model.                                                    *)
(***************************************************************************)
\* Number of generate calls in flight on the one client instance.
NumCalls == 2

(***************************************************************************)
(* JavaScript values.                                                      *)
(***************************************************************************)
Num(n) == [t |-> "number", v |-> n]
NaN == [t |-> "NaN", v |-> 0]
Undefined == [t |-> "undefined", v |-> 0]

\* JavaScript truthiness of a number-or-undefined value (0, NaN and
\* undefined are falsy).
Truthy(x) == x.t = "number" /\ x.v # 0

\* The JavaScript expression  a || b  on such values.
OrElse(a, b) == IF Truthy(a) THEN a ELSE b

\* The JavaScript expression  a ?? b .
Coalesce(a, b) == IF a.t = "undefined" THEN b ELSE a

(***************************************************************************)
(* Characters and strings.                                                 *)
(***************************************************************************)
Ord ==
    ("0" :> 48) @@ ("1" :> 49) @@ ("2" :> 50) @@ ("3" :> 51) @@ ("4" :> 52) @@
    ("5" :> 53) @@ ("6" :> 54) @@ ("7" :> 55) @@ ("8" :> 56) @@ ("9" :> 57) @@
    ("A" :> 65) @@ ("B" :> 66) @@ ("C" :> 67) @@ ("D" :> 68) @@ ("E" :> 69) @@
    ("F" :> 70) @@
    ("a" :> 97) @@ ("b" :> 98) @@ ("c" :> 99) @@ ("d" :> 100) @@ ("e" :> 101) @@
    ("f" :> 102) @@ ("h" :> 104) @@ ("i" :> 105) @@ ("l" :> 108) @@
    ("m" :> 109) @@ ("n" :> 110) @@ ("o" :> 111) @@ ("p" :> 112) @@
    ("t" :> 116) @@ ("u" :> 117) @@ ("x" :> 120) @@ ("y" :> 121) @@
    (" " :> 32) @@ ("%" :> 37) @@ ("-" :> 45) @@ ("+" :> 43) @@ ("." :> 46) @@
    (";" :> 59) @@ ("=" :> 61) @@ ("\"" :> 34) @@ ("/" :> 47) @@ ("_" :> 95)

\* The string whose characters are the one-character strings of cs.
S(cs) == [i \in DOMAIN cs |-> Ord[cs[i]]]

Digits == 48..57
UpperAF == 65..70
LowerAF == 97..102

\* StrWhiteSpaceChar of ECMAScript's number parsing (the code units below
\* 256 among them).
WhiteSpace == {9, 10, 11, 12, 13, 32, 160}

RECURSIVE SkipWhite(_)
SkipWhite(s) ==
    IF s # <<>> /\ Head(s) \in WhiteSpace THEN SkipWhite(Tail(s)) ELSE s

\* The longest prefix of s made of decimal digits.
RECURSIVE DigitPrefix(_)
DigitPrefix(s) ==
    IF s # <<>> /\ Head(s) \in Digits
    THEN <<Head(s)>> \o DigitPrefix(Tail(s))
    ELSE <<>>

\* The value of a sequence of decimal digits.
RECURSIVE DigitsValue(_)
DigitsValue(ds) ==
    IF ds = <<>> THEN 0
    ELSE 10 * DigitsValue(SubSeq(ds, 1, Len(ds) - 1)) + (ds[Len(ds)] - 48)

\* parseInt(s, 10): leading white space is skipped, one sign is read, then
\* the longest run of digits; NaN when that run is empty.
ParseInt(s) ==
    LET t == SkipWhite(s)
        signed == t # <<>> /\ Head(t) \in {43, 45}
        sign == IF t # <<>> /\ Head(t) = 45 THEN -1 ELSE 1
        ds == DigitPrefix(IF signed THEN Tail(t) ELSE t)
    IN IF ds = <<>> THEN NaN ELSE Num(sign * DigitsValue(ds))

(***************************************************************************)
(* HTTP headers: Headers.get(name) is null for an absent header.           *)
(***************************************************************************)
NoHeader == [has |-> FALSE, val |-> <<>>]
Header(s) == [has |-> TRUE, val |-> s]

\* The JavaScript expression  headers.get(name) || dflt : null and the
\* empty string are falsy.
GetOr(h, dflt) == IF h.has /\ h.val # <<>> THEN h.val ELSE dflt


(***************************************************************************)
(* The filename pattern  /filename="?([^";\n]+)"?/  of generate.           *)
(***************************************************************************)
FilenameKey == S(<<"f", "i", "l", "e", "n", "a", "m", "e", "=">>)

\* The characters the capture group's class [^";\n] excludes.
FilenameStop == {34, 59, 10}

\* The longest prefix of s made of characters of the capture group's class.
RECURSIVE ClassPrefix(_)
ClassPrefix(s) ==
    IF s # <<>> /\ Head(s) \notin FilenameStop
    THEN <<Head(s)>> \o ClassPrefix(Tail(s))
    ELSE <<>>

\* The capture group of a match that starts at position i, or <<>> when the
\* pattern does not match there: after the key an optional quote is
\* skipped, and the group is the (greedy, non-empty) run of class
\* characters.  When the quote is followed by no class character the
\* pattern fails at i, for the quote itself is not of the class.
GroupAt(s, i) ==
    LET k == Len(FilenameKey) IN
    IF i + k - 1 > Len(s) \/ SubSeq(s, i, i + k - 1) # FilenameKey THEN <<>>
    ELSE LET rest == SubSeq(s, i + k, Len(s))
             body == IF rest # <<>> /\ Head(rest) = 34 THEN Tail(rest) ELSE rest
         IN ClassPrefix(body)

\* String.prototype.match: the leftmost position where the pattern matches.
FilenameMatch(s) ==
    LET hits == {i \in 1..Len(s) : GroupAt(s, i) # <<>>} IN
    IF hits = {} THEN [matched |-> FALSE, group |-> <<>>]
    ELSE [matched |-> TRUE,
          group |-> GroupAt(s, CHOOSE i \in hits : \A j \in hits : i <= j)]

(***************************************************************************)
(* decodeURIComponent and encodeURIComponent (ECMAScript Decode / Encode). *)
(***************************************************************************)
IsHex(c) == c \in Digits \cup UpperAF \cup LowerAF

HexValue(c) ==
    IF c \in Digits THEN c - 48
    ELSE IF c \in UpperAF THEN c - 55
    ELSE c - 87

\* Whether a %XX escape starts at position i of s.
EscapeAt(s, i) ==
    i + 2 <= Len(s) /\ s[i] = 37 /\ IsHex(s[i + 1]) /\ IsHex(s[i + 2])

\* The byte the escape at position i denotes.
ByteAt(s, i) == 16 * HexValue(s[i + 1]) + HexValue(s[i + 2])

\* The number of bytes of the UTF-8 sequence a leading byte announces (0: the
\* byte cannot lead a sequence).
Utf8Length(b) ==
    IF b < 128 THEN 1
    ELSE IF b \in 194..223 THEN 2
    ELSE IF b \in 224..239 THEN 3
    ELSE IF b \in 240..244 THEN 4
    ELSE 0

\* Whether n escapes of continuation bytes (10xxxxxx) follow from position i.
RECURSIVE Continuations(_, _, _)
Continuations(s, i, n) ==
    n = 0 \/ (/\ EscapeAt(s, i)
              /\ ByteAt(s, i) \in 128..191
              /\ Continuations(s, i + 3, n - 1))

\* The code point of the UTF-8 sequence of n bytes escaped from position i.
CodePointAt(s, i, n) ==
    LET b == ByteAt(s, i)
        c(k) == ByteAt(s, i + 3 * k) - 128
    IN IF n = 1 THEN b
       ELSE IF n = 2 THEN (b - 192) * 64 + c(1)
       ELSE IF n = 3 THEN ((b - 224) * 64 + c(1)) * 64 + c(2)
       ELSE (((b - 240) * 64 + c(1)) * 64 + c(2)) * 64 + c(3)

\* A code point is a well-formed result of n bytes: not overlong, not a
\* surrogate, not beyond U+10FFFF.
ValidCodePoint(cp, n) ==
    /\ n = 3 => cp >= 2048 /\ cp \notin 55296..57343
    /\ n = 4 => cp \in 65536..1114111

\* The UTF-16 code units of a code point.
CodeUnits(cp) ==
    IF cp < 65536 THEN <<cp>>
    ELSE <<55296 + ((cp - 65536) \div 1024), 56320 + ((cp - 65536) % 1024)>>

\* decodeURIComponent(s) from position i: [ok, val]; ok is FALSE where the
\* runtime throws URIError (a % that starts no escape, or escaped bytes
\* that are not UTF-8).
RECURSIVE DecodeFrom(_, _)
DecodeFrom(s, i) ==
    IF i > Len(s) THEN [ok |-> TRUE, val |-> <<>>]
    ELSE IF s[i] # 37
    THEN LET r == DecodeFrom(s, i + 1)
         IN [ok |-> r.ok, val |-> <<s[i]>> \o r.val]
    ELSE IF ~EscapeAt(s, i) THEN [ok |-> FALSE, val |-> <<>>]
    ELSE LET n == Utf8Length(ByteAt(s, i)) IN
         IF n = 0 \/ ~Continuations(s, i + 3, n - 1)
         THEN [ok |-> FALSE, val |-> <<>>]
         ELSE LET cp == CodePointAt(s, i, n) IN
              IF ~ValidCodePoint(cp, n) THEN [ok |-> FALSE, val |-> <<>>]
              ELSE LET r == DecodeFrom(s, i + 3 * n)
                   IN [ok |-> r.ok, val |-> CodeUnits(cp) \o r.val]

decodeURIComponent(s) == DecodeFrom(s, 1)

\* uriUnescaped: the characters encodeURIComponent leaves as they are
\* (letters, digits and  - _ . ! ~ * ' ( ) ).
Unreserved ==
    (48..57) \cup (65..90) \cup (97..122) \cup {45, 95, 46, 33, 126, 42, 39, 40, 41}

HexDigit(n) == IF n < 10 THEN 48 + n ELSE 55 + n

Escape(byte) == <<37, HexDigit(byte \div 16), HexDigit(byte % 16)>>

\* The escaped UTF-8 encoding of a code point.
EscapeCodePoint(cp) ==
    IF cp < 128 THEN Escape(cp)
    ELSE IF cp < 2048 THEN Escape(192 + (cp \div 64)) \o Escape(128 + (cp % 64))
    ELSE IF cp < 65536
    THEN Escape(224 + (cp \div 4096)) \o Escape(128 + ((cp \div 64) % 64))
         \o Escape(128 + (cp % 64))
    ELSE Escape(240 + (cp \div 262144)) \o Escape(128 + ((cp \div 4096) % 64))
         \o Escape(128 + ((cp \div 64) % 64)) \o Escape(128 + (cp % 64))

\* encodeURIComponent(s) from position i: [ok, val]; ok is FALSE where the
\* runtime throws URIError (a surrogate code unit that is not half of a
\* pair).
RECURSIVE EncodeFrom(_, _)
EncodeFrom(s, i) ==
    IF i > Len(s) THEN [ok |-> TRUE, val |-> <<>>]
    ELSE IF s[i] \in Unreserved
    THEN LET r == EncodeFrom(s, i + 1)
         IN [ok |-> r.ok, val |-> <<s[i]>> \o r.val]
    ELSE IF s[i] \in 56320..57343 THEN [ok |-> FALSE, val |-> <<>>]
    ELSE IF s[i] \notin 55296..56319
    THEN LET r == EncodeFrom(s, i + 1)
         IN [ok |-> r.ok, val |-> EscapeCodePoint(s[i]) \o r.val]
    ELSE IF i + 1 > Len(s) \/ s[i + 1] \notin 56320..57343
    THEN [ok |-> FALSE, val |-> <<>>]
    ELSE LET cp == (s[i] - 55296) * 1024 + (s[i + 1] - 56320) + 65536
             r == EncodeFrom(s, i + 2)
         IN [ok |-> r.ok, val |-> EscapeCodePoint(cp) \o r.val]

encodeURIComponent(s) == EncodeFrom(s, 1)


(***************************************************************************)
(* Errors (errors.ts).  An error is a record; the fields a class does not  *)
(* define are Undefined / "undefined".  api: instanceof APIError;          *)
(* isError: instanceof Error; timeout: the value interpolated into         *)
(* TimeoutError's message; cause: the name of NetworkError's cause.        *)
(***************************************************************************)
JsError(name, message) ==
    [name |-> name, api |-> FALSE, isError |-> TRUE, statusCode |-> Undefined,
     errorCode |-> "undefined", message |-> message, details |-> "undefined",
     retryAfter |-> Undefined, timeout |-> Undefined, cause |-> "undefined"]

\* A value that is thrown without being an Error.
NonError == [JsError("undefined", "undefined") EXCEPT !.isError = FALSE]

\* Completion of an evaluation: a value, or an error thrown.
Normal(v) == [threw |-> FALSE, value |-> v]
Throw(e) == [threw |-> TRUE, value |-> e]

\* A parsed JSON value read as an APIErrorResponse.
JsonObject(error, message, details) ==
    [t |-> "object", error |-> error, message |-> message, details |-> details]
JsonNull == [t |-> "null", error |-> "undefined", message |-> "undefined",
             details |-> "undefined"]
JsonPrimitive == [t |-> "primitive", error |-> "undefined",
                  message |-> "undefined", details |-> "undefined"]

\* new Error(m).message: undefined gives the empty message.
ErrorMessage(m) == IF m = "undefined" THEN "" ELSE m

\* new APIError(statusCode, response): reading response.message throws
\* TypeError when response is null.
APIError(statusCode, response) ==
    IF response.t = "null"
    THEN Throw(JsError("TypeError", "Cannot read properties of null"))
    ELSE Normal([JsError("APIError", ErrorMessage(response.message)) EXCEPT
                    !.api = TRUE,
                    !.statusCode = Num(statusCode),
                    !.errorCode = response.error,
                    !.details = response.details])

\* A subclass constructor: super(statusCode, response), then this.name.
Subclass(name, statusCode, response) ==
    LET base == APIError(statusCode, response) IN
    IF base.threw THEN base ELSE Normal([base.value EXCEPT !.name = name])

ValidationError(response) == Subclass("ValidationError", 400, response)
AuthenticationError(response) == Subclass("AuthenticationError", 401, response)
ForbiddenError(response) == Subclass("ForbiddenError", 403, response)
NotFoundError(response) == Subclass("NotFoundError", 404, response)
ServerError(response) == Subclass("ServerError", 500, response)

RateLimitError(response, retryAfter) ==
    LET base == Subclass("RateLimitError", 429, response) IN
    IF base.threw THEN base
    ELSE Normal([base.value EXCEPT !.retryAfter = retryAfter])

TimeoutError(timeout) ==
    [JsError("TimeoutError", "Request timed out after ${timeout}ms") EXCEPT
        !.timeout = Num(timeout)]

NetworkError(message, cause) ==
    [JsError("NetworkError", message) EXCEPT !.cause = cause]

(***************************************************************************)
(* The client (client.ts).                                                 *)
(***************************************************************************)
DEFAULT_BASE_URL == "https://api.documentstack.dev"
DEFAULT_TIMEOUT == 30000

\* The constructor: the configuration kept for a given timeout option (the
\* API key is given, the base URL is left to its default).
Construct(timeout) ==
    [apiKey |-> "key", baseUrl |-> DEFAULT_BASE_URL,
     timeout |-> Coalesce(timeout, Num(DEFAULT_TIMEOUT)).v]

\* response.ok
Ok(status) == status \in 200..299

\* The retryAfter of a 429: parseInt(headers.get("Retry-After") || "", 10)
\* || undefined.
RetryAfter(headers) == OrElse(ParseInt(GetOr(headers.retryAfter, <<>>)), Undefined)

\* createError(statusCode, response, headers)
createError(statusCode, response, headers) ==
    CASE statusCode = 400 -> ValidationError(response)
      [] statusCode = 401 -> AuthenticationError(response)
      [] statusCode = 403 -> ForbiddenError(response)
      [] statusCode = 404 -> NotFoundError(response)
      [] statusCode = 429 -> RateLimitError(response, RetryAfter(headers))
      [] OTHER -> ServerError(response)

\* The body response.json() is replaced by when it rejects.
DefaultErrorBody(statusText) == JsonObject("Unknown Error", statusText, "undefined")

\* A catch block that looks for the SDK's own error name instead of the
\* name fetch rejects with on abort.
AbortNameOfSdk == "TimeoutError"

\* The name the catch block compares error.name with.
AbortName == "AbortError"

\* The catch block of generate: what it throws for a caught error.
CatchHandler(error, timeout) ==
    IF error.api THEN error
    ELSE IF error.isError
    THEN IF error.name = AbortName THEN TimeoutError(timeout)
         ELSE NetworkError("Network request failed: ${error.message}", error.name)
    ELSE NetworkError("Unknown network error", "undefined")

\* A guard that rejects only a templateId that is not a string at all: the
\* empty string passes.
TemplateIdNotAString(templateId) == templateId \notin Seq(Int)

\* !templateId
TemplateIdMissing(templateId) == templateId = <<>>

\* JSON.stringify({data, options}): TypeError for a value it cannot
\* serialise (a circular structure, a BigInt).
Stringify(request) ==
    IF request.data \in {"circular", "bigint"}
    THEN Throw(JsError("TypeError", "Converting circular structure to JSON"))
    ELSE Normal(request)

\* The success path after the body is read: the GenerateResponse returned,
\* or the error decodeURIComponent throws.
Decode(pdf, headers) ==
    LET contentDisposition == GetOr(headers.contentDisposition, <<>>)
        generationTimeMs == ParseInt(GetOr(headers.generationTime, S(<<"0">>)))
        contentLength == ParseInt(GetOr(headers.contentLength, S(<<"0">>)))
        filenameMatch == FilenameMatch(contentDisposition)
        filename == IF filenameMatch.matched THEN filenameMatch.group
                    ELSE S(<<"d", "o", "c", "u", "m", "e", "n", "t", ".", "p", "d", "f">>)
        decoded == decodeURIComponent(filename)
    IN IF ~decoded.ok THEN Throw(JsError("URIError", "URI malformed"))
       ELSE Normal([pdf |-> pdf,
                    filename |-> decoded.val,
                    generationTimeMs |-> generationTimeMs,
                    contentLength |-> OrElse(contentLength, Num(Len(pdf)))])


(***************************************************************************)
(* Inputs: what callers pass and what the network delivers.                *)
(***************************************************************************)
Calls == 1..NumCalls

\* The timeout option given to the constructor.
TimeoutOptions == {Undefined, Num(5000)}

\* templateId: empty, plain, one that needs escaping, and a lone surrogate
\* code unit (a JavaScript string need not be well-formed UTF-16).
TemplateIds == {<<>>, S(<<"t", "1">>), S(<<"a", " ", "b">>), <<55296>>}

\* request.data: a plain object, and one JSON.stringify cannot serialise.
Requests == {[data |-> "object"], [data |-> "circular"]}

Headers(cd, gen, cl, ra) ==
    [contentDisposition |-> cd, generationTime |-> gen, contentLength |-> cl,
     retryAfter |-> ra]

StatusText(status) ==
    CASE status = 200 -> "OK"
      [] status = 201 -> "Created"
      [] status = 400 -> "Bad Request"
      [] status = 401 -> "Unauthorized"
      [] status = 403 -> "Forbidden"
      [] status = 404 -> "Not Found"
      [] status = 418 -> "I'm a teapot"
      [] status = 429 -> "Too Many Requests"
      [] status = 500 -> "Internal Server Error"
      [] status = 503 -> "Service Unavailable"
      [] OTHER -> ""

Response(status, headers) ==
    [status |-> status, statusText |-> StatusText(status), headers |-> headers]

NoResponse == Response(0, Headers(NoHeader, NoHeader, NoHeader, NoHeader))

OkStatuses == {200, 201}
ErrorStatuses == {400, 401, 403, 404, 418, 429, 500, 503}

ContentDispositions ==
    {NoHeader,
     Header(S(<<"a", "t", "t", "a", "c", "h", "m", "e", "n", "t">>)),
     Header(S(<<"f", "i", "l", "e", "n", "a", "m", "e", "=", "\"", "x", ".", "p", "d", "f", "\"">>)),
     Header(S(<<"f", "i", "l", "e", "n", "a", "m", "e", "=", "a", "%", "2", "0", "b">>)),
     Header(S(<<"f", "i", "l", "e", "n", "a", "m", "e", "=", "\"", "1", "0", "0", "%", ".", "p", "d", "f", "\"">>)),
     Header(S(<<"f", "i", "l", "e", "n", "a", "m", "e", "=", "\"", "\"">>))}

GenerationTimes ==
    {NoHeader, Header(S(<<"4", "2">>)), Header(S(<<"a", "b", "c">>)),
     Header(S(<<"4", "x">>))}

ContentLengths ==
    {NoHeader, Header(S(<<"1", "0", "0">>)), Header(S(<<"0">>)),
     Header(S(<<"a", "b", "c">>))}

RetryAfters ==
    {NoHeader, Header(S(<<"3", "0">>)), Header(S(<<"0">>)),
     Header(S(<<"a", "b", "c">>)), Header(S(<<"-", "5">>))}

\* Every response of the wire protocol the model delivers.
WireResponses ==
    {Response(s, Headers(cd, gen, cl, NoHeader)) :
        s \in OkStatuses, cd \in ContentDispositions, gen \in GenerationTimes,
        cl \in ContentLengths}
    \cup
    {Response(s, Headers(NoHeader, NoHeader, NoHeader, ra)) :
        s \in ErrorStatuses, ra \in RetryAfters}

\* The responses delivered when several calls run side by side.
LifecycleResponses ==
    {Response(200, Headers(Header(S(<<"f", "i", "l", "e", "n", "a", "m", "e", "=", "\"", "x", ".", "p", "d", "f", "\"">>)),
                           Header(S(<<"4", "2">>)), Header(S(<<"1", "0", "0">>)),
                           NoHeader)),
     Response(404, Headers(NoHeader, NoHeader, NoHeader, NoHeader)),
     Response(429, Headers(NoHeader, NoHeader, NoHeader, Header(S(<<"3", "0">>))))}

\* What response.json() resolves with; "rejected" stands for its rejection
\* (a body that is not JSON, or that cannot be read).
Rejected == [t |-> "rejected", error |-> "undefined", message |-> "undefined",
             details |-> "undefined"]

JsonResults ==
    {JsonObject("not_found", "no such template", "undefined"),
     JsonObject("bad", "undefined", "field x"),
     JsonNull, JsonPrimitive, Rejected}

\* What response.arrayBuffer() resolves with: the bytes of the body;
\* <<-1>> stands for its rejection (the connection fails mid-body).
ReadFailed == <<-1>>
PdfBodies == {<<>>, <<37, 80, 68, 70>>, ReadFailed}

\* What fetch rejects with when the transport fails.
TransportErrors == {JsError("TypeError", "fetch failed"), NonError}

(***************************************************************************)
(* State.                                                                  *)
(***************************************************************************)
VARIABLES
    config,       \* the client's configuration, fixed by the constructor
    pc,           \* where each generate call stands
    args,         \* the arguments of each call
    posts,        \* the requests each call handed to fetch
    timer,        \* each call's timeout timer: unset, armed, cleared, fired
    aborted,      \* each call's controller.signal.aborted
    fetchState,   \* each call's fetch promise: unsent, pending, resolved,
                  \* aborted (rejected with AbortError), failed
    resp,         \* the response fetch resolved with
    body,         \* how the body read ended: unread, complete, failed
    result,       \* what each call returned (at most one value)
    thrown        \* what each call threw (at most one error)

vars == <<config, pc, args, posts, timer, aborted, fetchState, resp, body,
          result, thrown>>

NoArgs == [templateId |-> <<>>, request |-> [data |-> "undefined"]]

Init ==
    /\ config \in {Construct(t) : t \in TimeoutOptions}
    /\ pc = [c \in Calls |-> "idle"]
    /\ args = [c \in Calls |-> NoArgs]
    /\ posts = [c \in Calls |-> <<>>]
    /\ timer = [c \in Calls |-> "unset"]
    /\ aborted = [c \in Calls |-> FALSE]
    /\ fetchState = [c \in Calls |-> "unsent"]
    /\ resp = [c \in Calls |-> NoResponse]
    /\ body = [c \in Calls |-> "unread"]
    /\ result = [c \in Calls |-> <<>>]
    /\ thrown = [c \in Calls |-> <<>>]

\* The call ends by throwing e.
Raise(c, e) ==
    /\ pc' = [pc EXCEPT ![c] = "done"]
    /\ thrown' = [thrown EXCEPT ![c] = Append(@, e)]
    /\ UNCHANGED result

\* The call ends by returning r.
Return(c, r) ==
    /\ pc' = [pc EXCEPT ![c] = "done"]
    /\ result' = [result EXCEPT ![c] = Append(@, r)]
    /\ UNCHANGED thrown

\* The POST generate hands to fetch.
Request(templateId, body0) ==
    [method |-> "POST",
     url |-> <<config.baseUrl, "/api/v1/generate/", encodeURIComponent(templateId).val>>,
     authorization |-> <<"Bearer ", config.apiKey>>,
     body |-> body0]

\* generate(templateId, request), up to its await of fetch.
Generate(c, templateId, request) ==
    /\ pc[c] = "idle"
    /\ args' = [args EXCEPT ![c] = [templateId |-> templateId, request |-> request]]
    /\ UNCHANGED <<config, aborted, resp, body>>
    /\ IF TemplateIdMissing(templateId)
       THEN /\ Raise(c, ValidationError(
                          JsonObject("Bad Request", "Template ID is required",
                                     "undefined")).value)
            /\ UNCHANGED <<posts, timer, fetchState>>
       ELSE IF ~encodeURIComponent(templateId).ok
       THEN /\ Raise(c, JsError("URIError", "URI malformed"))
            /\ UNCHANGED <<posts, timer, fetchState>>
       ELSE IF Stringify(request).threw
       THEN /\ Raise(c, Stringify(request).value)
            /\ UNCHANGED <<posts, timer, fetchState>>
       ELSE /\ timer' = [timer EXCEPT ![c] = "armed"]
            /\ posts' = [posts EXCEPT ![c] =
                            Append(@, Request(templateId, Stringify(request).value))]
            /\ fetchState' = [fetchState EXCEPT ![c] = "pending"]
            /\ pc' = [pc EXCEPT ![c] = "fetching"]
            /\ UNCHANGED <<result, thrown>>

\* fetch resolves with a response: clearTimeout, then the body is awaited.
ResponseArrives(c, response) ==
    /\ pc[c] = "fetching"
    /\ fetchState[c] = "pending"
    /\ fetchState' = [fetchState EXCEPT ![c] = "resolved"]
    /\ resp' = [resp EXCEPT ![c] = response]
    /\ timer' = [timer EXCEPT ![c] = "cleared"]
    /\ pc' = [pc EXCEPT ![c] = "reading"]
    /\ UNCHANGED <<config, args, posts, aborted, body, result, thrown>>

\* The failure path: response.json() settles, createError's error is thrown
\* inside the try block and passes through the catch block.
ErrorBodyRead(c, json) ==
    /\ pc[c] = "reading"
    /\ ~Ok(resp[c].status)
    /\ LET errorBody == IF json = Rejected
                        THEN DefaultErrorBody(resp[c].statusText)
                        ELSE json
           made == createError(resp[c].status, errorBody, resp[c].headers)
       IN /\ body' = [body EXCEPT ![c] = IF json = Rejected THEN "failed" ELSE "complete"]
          /\ Raise(c, CatchHandler(made.value, config.timeout))
    /\ UNCHANGED <<config, args, posts, timer, aborted, fetchState, resp>>

\* The success path: response.arrayBuffer() settles; the result is
\* returned, or what is thrown on the way passes through the catch block.
SuccessBodyRead(c, bytes) ==
    /\ pc[c] = "reading"
    /\ Ok(resp[c].status)
    /\ IF bytes = ReadFailed
       THEN /\ body' = [body EXCEPT ![c] = "failed"]
            /\ Raise(c, CatchHandler(JsError("TypeError", "terminated"),
                                     config.timeout))
       ELSE /\ body' = [body EXCEPT ![c] = "complete"]
            /\ LET out == Decode(bytes, resp[c].headers) IN
               IF out.threw
               THEN Raise(c, CatchHandler(out.value, config.timeout))
               ELSE Return(c, out.value)
    /\ UNCHANGED <<config, args, posts, timer, aborted, fetchState, resp>>

\* The timer fires while fetch is pending: controller.abort() rejects fetch
\* with AbortError, which the catch block turns into TimeoutError.
TimeoutExpires(c) ==
    /\ pc[c] = "fetching"
    /\ timer[c] = "armed"
    /\ timer' = [timer EXCEPT ![c] = "fired"]
    /\ aborted' = [aborted EXCEPT ![c] = TRUE]
    /\ fetchState' = [fetchState EXCEPT ![c] = "aborted"]
    /\ Raise(c, CatchHandler(JsError("AbortError", "This operation was aborted"),
                             config.timeout))
    /\ UNCHANGED <<config, args, posts, resp, body>>

\* fetch rejects with a transport error: the catch block runs, and nothing
\* clears the timer.
TransportError(c, error) ==
    /\ pc[c] = "fetching"
    /\ fetchState[c] = "pending"
    /\ fetchState' = [fetchState EXCEPT ![c] = "failed"]
    /\ Raise(c, CatchHandler(error, config.timeout))
    /\ UNCHANGED <<config, args, posts, timer, aborted, resp, body>>

\* A timer left armed fires after its call has ended: controller.abort() on
\* a fetch that is already settled.
LateTimerFires(c) ==
    /\ pc[c] = "done"
    /\ timer[c] = "armed"
    /\ timer' = [timer EXCEPT ![c] = "fired"]
    /\ aborted' = [aborted EXCEPT ![c] = TRUE]
    /\ UNCHANGED <<config, pc, args, posts, fetchState, resp, body, result, thrown>>

\* One step of call c, with the network delivering from the given sets.
Step(c, responses, jsons) ==
    \/ \E templateId \in TemplateIds, request \in Requests :
          Generate(c, templateId, request)
    \/ \E response \in responses : ResponseArrives(c, response)
    \/ \E json \in jsons : ErrorBodyRead(c, json)
    \/ \E bytes \in PdfBodies : SuccessBodyRead(c, bytes)
    \/ TimeoutExpires(c)
    \/ \E error \in TransportErrors : TransportError(c, error)
    \/ LateTimerFires(c)

\* Concurrent calls on one client instance.
Next == \E c \in Calls : Step(c, LifecycleResponses, {JsonObject("not_found", "no such template", "undefined"), Rejected})

Spec == Init /\ [][Next]_vars

\* One call, with every response of the wire protocol.
NextWire == Step(1, WireResponses, JsonResults)

SpecWire == Init /\ [][NextWire]_vars


(***************************************************************************)
(* Properties.                                                             *)
(***************************************************************************)
Done(c) == pc[c] = "done"

\* The call received an HTTP response with a status outside 2xx.
HttpFailure(c) == fetchState[c] = "resolved" /\ ~Ok(resp[c].status)

\* The eight classified kinds.
Taxonomy ==
    {"ValidationError", "AuthenticationError", "ForbiddenError", "NotFoundError",
     "RateLimitError", "ServerError", "TimeoutError", "NetworkError"}

\* The status-to-classification table.
TableKind(status) ==
    CASE status = 400 -> "ValidationError"
      [] status = 401 -> "AuthenticationError"
      [] status = 403 -> "ForbiddenError"
      [] status = 404 -> "NotFoundError"
      [] status = 429 -> "RateLimitError"
      [] OTHER -> "ServerError"

\* C1: a call that received a non-2xx response ends with the error kind the
\* table gives for the status, whatever the response body was.
C1_KindByStatusAlone ==
    \A c \in Calls :
        Done(c) /\ HttpFailure(c) =>
            /\ result[c] = <<>>
            /\ Len(thrown[c]) = 1
            /\ thrown[c][1].name = TableKind(resp[c].status)

\* C2: a call has at most one outcome, a finished call has exactly one, and
\* an error raised is of one of the eight classified kinds.
C2_ExactlyOneClassifiedOutcome ==
    \A c \in Calls :
        /\ Len(result[c]) + Len(thrown[c]) = (IF Done(c) THEN 1 ELSE 0)
        /\ \A i \in DOMAIN thrown[c] : thrown[c][i].name \in Taxonomy

\* C3: a classified error carries the original status code: the status of
\* the HTTP failure response, and 0 for Timeout and Network errors.
C3_OriginalStatusCode ==
    \A c \in Calls :
        \A i \in DOMAIN thrown[c] :
            LET e == thrown[c][i] IN
            /\ HttpFailure(c) /\ e.api => e.statusCode = Num(resp[c].status)
            /\ e.name \in {"TimeoutError", "NetworkError"} => e.statusCode = Num(0)

\* C4 (state part): a call whose fetch was aborted by the timer has failed
\* with TimeoutError carrying the configured timeout and has no result, and
\* only such a call is reported as Timeout.
C4_TimeoutOutcome ==
    \A c \in Calls :
        /\ fetchState[c] = "aborted" =>
              /\ Done(c)
              /\ result[c] = <<>>
              /\ thrown[c] = <<TimeoutError(config.timeout)>>
              /\ thrown[c][1].timeout = Num(config.timeout)
        /\ \A i \in DOMAIN thrown[c] :
              thrown[c][i].name = "TimeoutError" => fetchState[c] = "aborted"

\* C4 (step part): response arrival, timeout expiry and transport error
\* exclude one another: once a call's fetch has settled in one of the three
\* ways it never settles in another.
C4_TerminalEventsExclusive ==
    \A c \in Calls :
        fetchState[c] \in {"resolved", "aborted", "failed"} =>
            fetchState'[c] = fetchState[c]

\* C4: a timer that fires while the request is in flight fails the call
\* with Timeout (configured value, no result); the three terminal events
\* are mutually exclusive, so no call ended by a response or a transport
\* error is reported as Timeout.
C4_TimeoutIsExclusive ==
    [](C4_TimeoutOutcome) /\ [][C4_TerminalEventsExclusive]_vars

C4_Witness ==
    \E c \in Calls :
        /\ fetchState[c] = "aborted"
        /\ Done(c)
        /\ Len(thrown[c]) = 1
        /\ thrown[c][1].name = "TimeoutError"
        /\ \E d \in Calls : fetchState[d] = "failed" /\ Done(d)

\* C5: a call with an empty templateId fails with a Validation error (400),
\* hands nothing to fetch and arms no timer.
C5_EmptyTemplateId ==
    \A c \in Calls :
        pc[c] # "idle" /\ args[c].templateId = <<>> =>
            /\ Done(c)
            /\ result[c] = <<>>
            /\ Len(thrown[c]) = 1
            /\ thrown[c][1].name = "ValidationError"
            /\ thrown[c][1].statusCode = Num(400)
            /\ posts[c] = <<>>
            /\ fetchState[c] = "unsent"
            /\ timer[c] = "unset"

C5_Witness ==
    \E c \in Calls :
        /\ Done(c)
        /\ args[c].templateId = <<>>
        /\ Len(thrown[c]) = 1
        /\ posts[c] = <<>>

\* C6: a call with a non-empty templateId hands exactly one POST to fetch,
\* whatever its outcome.
C6_ExactlyOnePost ==
    \A c \in Calls :
        /\ Len(posts[c]) <= 1
        /\ Done(c) /\ args[c].templateId # <<>> => Len(posts[c]) = 1

\* The integer parse of a header, absent when the header is missing or does
\* not parse.
ParsedOrAbsent(h) ==
    IF ~h.has \/ ParseInt(h.val) = NaN THEN Undefined ELSE ParseInt(h.val)

\* C7: the RateLimit error of a 429 carries the integer parse of the
\* Retry-After header (0 included), and nothing exactly when the header is
\* missing or does not parse.
C7_RetryAfterIsParse ==
    \A c \in Calls :
        \A i \in DOMAIN thrown[c] :
            thrown[c][i].name = "RateLimitError" =>
                thrown[c][i].retryAfter = ParsedOrAbsent(resp[c].headers.retryAfter)

\* C8: the generationTimeMs returned is the integer parse of the
\* X-Generation-Time-Ms header, 0 when it is missing or does not parse, and
\* never NaN.
C8_GenerationTimeIsInteger ==
    \A c \in Calls :
        \A i \in DOMAIN result[c] :
            /\ result[c][i].generationTimeMs.t = "number"
            /\ result[c][i].generationTimeMs =
                  Coalesce(ParsedOrAbsent(resp[c].headers.generationTime), Num(0))

\* C9: a 2xx response whose body was read completely makes the call return
\* a result, whatever its headers.
C9_SuccessAlwaysReturns ==
    \A c \in Calls :
        Done(c) /\ fetchState[c] = "resolved" /\ Ok(resp[c].status)
                /\ body[c] = "complete" =>
            Len(result[c]) = 1 /\ thrown[c] = <<>>

\* C10: the timer of a call that has ended is not armed.
C10_NoTimerAfterEnd ==
    \A c \in Calls : Done(c) => timer[c] # "armed"

=============================================================================
